---- MODULE Spec2Model ----
(***************************************************************************)
(* The Claudia assistant.  Spec: the token lifecycle, that is the DynamoDB  *)
(* token table, get_valid_access_token / refresh_and_save_tokens           *)
(* (ms_graph_client.py) run by concurrent worker invocations, and the OAuth*)
(* redirect handler (OAuthHandler.py) that creates the records.            *)
(* SpecOAuth: the OAuth handler with the response it returns.  SpecSlot:   *)
(* find_free_time_slot (ms_graph_client.py).  SpecMcp: the retry loop of   *)
(* MCPClient.call_mcp_tool (SlackClaudiaWorkerFunctionMCP.py).             *)
(***************************************************************************)
EXTENDS Integers, Sequences, FiniteSets, TLC

VARIABLES now, table, proc, issued, lastOp, served, response, finder, bridge,
          worker

\* The components beside the token lifecycle: response is the invocation of
\* the OAuth handler that is returning, finder one run of find_free_time_slot,
\* bridge one call of MCPClient.call_mcp_tool, worker one invocation of
\* SlackClaudiaWorkerFunction.lambda_handler.
others == <<response, finder, bridge, worker>>

vars == <<now, table, proc, issued, lastOp, served, response, finder, bridge,
          worker>>

----------------------------------------------------------------------------
(* Bounds of the model *)

\* clock ticks the model lets pass
MaxTicks == 1
\* tokens the issuer hands out in one behaviour
MaxIssued == 3

(* Program constants *)

\* timedelta(seconds=expires_in - 300)
SafetyMargin == 300
\* token_response.get('expires_in', 3600)
DefaultExpiresIn == 3600

Users == {"U1"}
Procs == {"w1", "w2"}

\* One clock tick is one safety margin, so that the instants expires_at - tick,
\* expires_at and expires_at + tick are all instants the clock takes.
TickSeconds == SafetyMargin
\* Lifetimes the issuer reports: shorter than, equal to, and twice the safety
\* margin.
ExpiresInValues == {0, SafetyMargin, 2 * SafetyMargin}

\* exp of an access token whose response carried no expires_in
NoExp == -1

----------------------------------------------------------------------------
(* Python dict helpers *)

Has(d, k) == k \in DOMAIN d
Get(d, k, default) == IF k \in DOMAIN d THEN d[k] ELSE default

\* `needle in text`, a text being a sequence of words
Contains(text, needle) == \E i \in 1..Len(text) : text[i] = needle

\* datetime.isoformat() and datetime.fromisoformat(): the stored string and the
\* instant read back from it
isoformat(t) == [iso |-> t]
fromisoformat(s) == s.iso

----------------------------------------------------------------------------
(* The issuer (login.microsoftonline.com token endpoint) *)

\* the access token of the n-th issuance; exp is the expiry the issuer reported
AccessToken(n, exp) == [id |-> n, exp |-> exp]

\* JSON bodies of a successful token response issued as number n at instant t:
\* complete ones, one that does not rotate the refresh token, one that reports
\* no lifetime
SuccessBodies(n, t) ==
    {[access_token |-> AccessToken(n, t + ei), refresh_token |-> n, expires_in |-> ei]
        : ei \in ExpiresInValues}
    \cup {[access_token |-> AccessToken(n, t + DefaultExpiresIn),
            expires_in |-> DefaultExpiresIn]}
    \cup {[access_token |-> AccessToken(n, NoExp), refresh_token |-> n]}

\* JSON error bodies.  The code of an error is in "error"; the description is
\* free text and names the code only when the code is invalid_grant.
ErrorBodies ==
    {[error |-> "invalid_grant", error_description |-> <<"invalid_grant", "AADSTS70008">>],
     [error |-> "invalid_grant", error_description |-> <<"AADSTS70008", "expired">>],
     [error |-> "temporarily_unavailable"]}

\* a JSON object that is neither a token response nor an error
MalformedBodies == {[token_type |-> "Bearer"]}

\* what requests.post(...) followed by response.json() can produce
HttpOutcomes(n, t) ==
    {[outcome |-> "post_raises"], [outcome |-> "json_raises"]}
    \cup {[outcome |-> "json", body |-> b] : b \in ErrorBodies \cup MalformedBodies}
    \cup (IF n <= MaxIssued
          THEN {[outcome |-> "json", body |-> b] : b \in SuccessBodies(n, t)}
          ELSE {})

----------------------------------------------------------------------------
(* The DynamoDB table: per key the set of items, empty or a singleton *)

TheItem(s) == CHOOSE i \in s : TRUE

\* table.get_item(Key=...).get('Item')
GetItem(tbl, u) == tbl[u]

\* a put that keeps the attributes the new item does not name
PutItem_merging(tbl, u, item) ==
    [tbl EXCEPT ![u] = {IF tbl[u] = {} THEN item ELSE item @@ TheItem(tbl[u])}]

\* table.put_item(Item=...): replaces the whole item
PutItem(tbl, u, item) == [tbl EXCEPT ![u] = {item}]

\* table.delete_item(Key=...)
DeleteItem(tbl, u) == [tbl EXCEPT ![u] = {}]

\* a write that sets only the access token and the expiry
UpdateItem_dropsRefresh(tbl, u, a, r, e) ==
    LET old == IF tbl[u] = {} THEN [user_id |-> u] ELSE TheItem(tbl[u])
    IN  [tbl EXCEPT ![u] =
            {[ms_access_token |-> a, ms_token_expires_at |-> e] @@ old}]

\* table.update_item(Key=..., "SET ms_access_token = :a, ms_refresh_token = :r,
\* ms_token_expires_at = :e"): one atomic write of the three attributes; creates
\* the item when the key has none
UpdateItem(tbl, u, a, r, e) ==
    LET old == IF tbl[u] = {} THEN [user_id |-> u] ELSE TheItem(tbl[u])
    IN  [tbl EXCEPT ![u] =
            {[ms_access_token |-> a, ms_refresh_token |-> r,
              ms_token_expires_at |-> e] @@ old}]

----------------------------------------------------------------------------
(* ms_graph_client.py *)

\* a read that hands back the raw response instead of its Item
get_tokens_for_user_rawResponse(tbl, u, readOk) ==
    IF readOk THEN {[ResponseMetadata |-> "200"]} ELSE {}

\* get_tokens_for_user: the item, or None (the empty set) when there is none or
\* when get_item raised
get_tokens_for_user(tbl, u, readOk) ==
    IF readOk THEN GetItem(tbl, u) ELSE {}

\* a staleness test that forgets the record without an expiry
IsStale_needsExpiry(item, t) ==
    /\ Has(item, "ms_token_expires_at")
    /\ fromisoformat(item.ms_token_expires_at) < t

\* a staleness test with the comparison turned round
IsStale_inverted(item, t) ==
    \/ ~Has(item, "ms_token_expires_at")
    \/ fromisoformat(item.ms_token_expires_at) > t

\* a staleness test that refreshes at the expiry instant already
IsStale_atExpiry(item, t) ==
    \/ ~Has(item, "ms_token_expires_at")
    \/ fromisoformat(item.ms_token_expires_at) <= t

\* not expires_at_str or datetime.fromisoformat(expires_at_str) < datetime.utcnow()
IsStale(item, t) ==
    \/ ~Has(item, "ms_token_expires_at")
    \/ fromisoformat(item.ms_token_expires_at) < t

\* a purge on every issuer error
ShouldDelete_anyError(body) == TRUE

\* "invalid_grant" in token_response.get('error_description', '')
ShouldDelete(body) ==
    Contains(Get(body, "error_description", <<>>), "invalid_grant")

\* the issuer's new refresh token, always
NewRefreshToken_noFallback(body, refresh_token) ==
    IF Has(body, "refresh_token") THEN body.refresh_token ELSE 0

\* token_response.get('refresh_token', refresh_token)
NewRefreshToken(body, refresh_token) == Get(body, "refresh_token", refresh_token)

\* an expiry less two safety margins
ExpiresAt_twoMargins(body, t) ==
    isoformat(t + (Get(body, "expires_in", DefaultExpiresIn) - 2 * SafetyMargin))

\* the raw expiry
ExpiresAt_raw(body, t) ==
    isoformat(t + Get(body, "expires_in", DefaultExpiresIn))

\* (datetime.utcnow() + timedelta(seconds=expires_in - 300)).isoformat()
ExpiresAt(body, t) ==
    isoformat(t + (Get(body, "expires_in", DefaultExpiresIn) - SafetyMargin))

----------------------------------------------------------------------------
(* Results of a get_valid_access_token call *)

Pending == [kind |-> "pending"]
None == [kind |-> "None"]
Raised == [kind |-> "raise"]
Returned(token) == [kind |-> "token", token |-> token]

\* One worker invocation.  user_data, http and staged hold the function's
\* locals (a set: empty until assigned); existed, read_at, posts and muts record
\* what the call met and did: whether the key had an item when the call read,
\* the instant of the read, the requests to the token endpoint and the writes
\* to the table.
IdleProc ==
    [pc |-> "idle", user_id |-> "", existed |-> FALSE, user_data |-> {},
     read_at |-> 0, http |-> {}, staged |-> {}, posts |-> 0, muts |-> 0,
     result |-> Pending]

\* The last write to a key: its kind, the item its writer had read (saw),
\* whether it overwrote the update of another call that had read the same item,
\* and the instant of the write.
NoOp == [kind |-> "none", saw |-> {}, raced |-> FALSE, at |-> 0]

\* served[u]: the tokens get_valid_access_token handed out from the stored item
\* since the last write to u's key; the first and the latest are kept
Note(list, token) ==
    IF Len(list) < 2 THEN Append(list, token) ELSE <<list[1], token>>

\* no invocation is at its return
Quiet == \A q \in Procs : proc[q].pc # "done"

InFlight(p) == proc[p].pc \in {"refreshing", "deleting", "updating"}

\* a component that is not running
Off == [pc |-> "off"]

Init ==
    /\ now = 0
    /\ table = [u \in Users |-> {}]
    /\ proc = [p \in Procs |-> IdleProc]
    /\ issued = 0
    /\ lastOp = [u \in Users |-> NoOp]
    /\ served = [u \in Users |-> <<>>]
    /\ response = {}
    /\ finder = Off
    /\ bridge = Off
    /\ worker = Off

----------------------------------------------------------------------------
(* get_valid_access_token, lines 82-93: the read and the staleness decision.
   The worker slots are interchangeable: the second one is taken only while the
   first is busy. *)
Call(p, u) ==
    /\ Quiet
    /\ proc[p].pc = "idle"
    /\ (p # "w1" => InFlight("w1"))
    /\ \E readOk \in BOOLEAN :
        LET user_data == get_tokens_for_user(table, u, readOk)
            started == [IdleProc EXCEPT !.user_id = u, !.existed = (table[u] # {}),
                                        !.user_data = user_data, !.read_at = now]
        IN  /\ proc' = [proc EXCEPT ![p] =
                IF user_data = {}
                THEN [started EXCEPT !.pc = "done", !.result = None]
                ELSE LET item == TheItem(user_data)
                     IN  IF IsStale(item, now)
                         THEN IF Has(item, "ms_refresh_token")
                              THEN [started EXCEPT !.pc = "refreshing"]
                              ELSE [started EXCEPT !.pc = "done", !.result = Raised]
                         ELSE IF Has(item, "ms_access_token")
                              THEN [started EXCEPT !.pc = "done",
                                        !.result = Returned(item.ms_access_token)]
                              ELSE [started EXCEPT !.pc = "done", !.result = Raised]]
            /\ served' = [served EXCEPT ![u] =
                    IF proc'[p].result.kind = "token"
                    THEN Note(@, proc'[p].result.token) ELSE @]
    /\ UNCHANGED <<now, table, issued, lastOp, others>>

(* refresh_and_save_tokens, lines 51-65: the request to the token endpoint and
   the classification of its answer *)
Exchange(p) ==
    /\ Quiet
    /\ proc[p].pc = "refreshing"
    /\ \E h \in HttpOutcomes(issued + 1, now) :
        LET sent == [proc[p] EXCEPT !.posts = @ + 1, !.http = {h}]
            refresh_token == TheItem(proc[p].user_data).ms_refresh_token
        IN  IF h.outcome # "json"
            THEN /\ proc' = [proc EXCEPT ![p] =
                        [sent EXCEPT !.pc = "done", !.result = Raised]]
                 /\ UNCHANGED issued
            ELSE IF Has(h.body, "error")
            THEN /\ proc' = [proc EXCEPT ![p] =
                        IF ShouldDelete(h.body)
                        THEN [sent EXCEPT !.pc = "deleting"]
                        ELSE [sent EXCEPT !.pc = "done", !.result = None]]
                 /\ UNCHANGED issued
            ELSE IF ~Has(h.body, "access_token")
            THEN /\ proc' = [proc EXCEPT ![p] =
                        [sent EXCEPT !.pc = "done", !.result = Raised]]
                 /\ UNCHANGED issued
            ELSE /\ proc' = [proc EXCEPT ![p] =
                        [sent EXCEPT !.pc = "updating",
                            !.staged = {[a |-> h.body.access_token,
                                         r |-> NewRefreshToken(h.body, refresh_token),
                                         e |-> ExpiresAt(h.body, now)]}]]
                 /\ issued' = issued + 1
    /\ UNCHANGED <<now, table, lastOp, served, others>>

(* refresh_and_save_tokens, lines 58-59: delete_item, then return None *)
Purge(p) ==
    /\ Quiet
    /\ proc[p].pc = "deleting"
    /\ table' = DeleteItem(table, proc[p].user_id)
    /\ lastOp' = [lastOp EXCEPT ![proc[p].user_id] =
            [kind |-> "delete", saw |-> proc[p].user_data, raced |-> FALSE, at |-> now]]
    /\ served' = [served EXCEPT ![proc[p].user_id] = <<>>]
    /\ proc' = [proc EXCEPT ![p].pc = "done", ![p].muts = @ + 1, ![p].result = None]
    /\ UNCHANGED <<now, issued, others>>

(* refresh_and_save_tokens, lines 66-76: update_item, then return the token *)
Save(p) ==
    /\ Quiet
    /\ proc[p].pc = "updating"
    /\ LET s == TheItem(proc[p].staged)
       IN  /\ table' = UpdateItem(table, proc[p].user_id, s.a, s.r, s.e)
           /\ proc' = [proc EXCEPT ![p].pc = "done", ![p].muts = @ + 1,
                                   ![p].result = Returned(s.a)]
    /\ lastOp' = [lastOp EXCEPT ![proc[p].user_id] =
            [kind |-> "update", saw |-> proc[p].user_data,
             raced |-> (@.kind = "update" /\ @.saw = proc[p].user_data),
             at |-> now]]
    /\ served' = [served EXCEPT ![proc[p].user_id] = <<>>]
    /\ UNCHANGED <<now, issued, others>>

(* get_valid_access_token returns to its caller: the next step after the one
   that produced the result; the slot is free for the next invocation *)
Return(p) ==
    /\ proc[p].pc = "done"
    /\ proc' = [proc EXCEPT ![p] = IdleProc]
    /\ UNCHANGED <<now, table, issued, lastOp, served, others>>

(* OAuthHandler.lambda_handler, route /oauth_microsoft_redirect, lines 65-104 *)
OAuthRedirect ==
    /\ Quiet
    /\ \E auth_code \in BOOLEAN, state \in Users \cup {""},
          answer \in {"error", "tokens", "no_refresh_token"} :
        IF ~auth_code \/ state = ""
        THEN UNCHANGED vars
        ELSE IF answer = "error"
        THEN UNCHANGED vars
        ELSE IF answer = "no_refresh_token"
        THEN UNCHANGED vars
        ELSE /\ issued < MaxIssued
             /\ issued' = issued + 1
             /\ table' = PutItem(table, state,
                    [user_id |-> state,
                     ms_access_token |->
                        AccessToken(issued + 1, now + DefaultExpiresIn),
                     ms_refresh_token |-> issued + 1])
             /\ lastOp' = [lastOp EXCEPT ![state] =
                    [kind |-> "put", saw |-> {}, raced |-> FALSE, at |-> now]]
             /\ served' = [served EXCEPT ![state] = <<>>]
             /\ UNCHANGED <<now, proc, others>>

(* time passes *)
Tick ==
    /\ Quiet
    /\ now < MaxTicks * TickSeconds
    /\ now' = now + TickSeconds
    /\ UNCHANGED <<table, proc, issued, lastOp, served, others>>

Next ==
    \/ \E p \in Procs, u \in Users : Call(p, u)
    \/ \E p \in Procs : Exchange(p)
    \/ \E p \in Procs : Purge(p)
    \/ \E p \in Procs : Save(p)
    \/ \E p \in Procs : Return(p)
    \/ OAuthRedirect
    \/ Tick

Spec == Init /\ [][Next]_vars

----------------------------------------------------------------------------
(* What a finished call shows *)

Done(p) == proc[p].pc = "done"
\* the item the call read
ReadItem(p) == TheItem(proc[p].user_data)
HasExpiry(p) == Has(ReadItem(p), "ms_token_expires_at")
ReadExpiry(p) == fromisoformat(ReadItem(p).ms_token_expires_at)
\* the item now stored for the call's user
StoredNow(p) == table[proc[p].user_id]
\* the token endpoint's answer to the call
Answer(p) == TheItem(proc[p].http)
IsJson(p) == proc[p].http # {} /\ Answer(p).outcome = "json"
\* the issuer accepted the refresh
Granted(p) ==
    IsJson(p) /\ ~Has(Answer(p).body, "error") /\ Has(Answer(p).body, "access_token")
\* the issuer rejected the refresh token itself
InvalidGrant(p) ==
    IsJson(p) /\ Has(Answer(p).body, "error") /\ Answer(p).body.error = "invalid_grant"
\* the exchange failed for another reason: no answer, no JSON, a JSON object that
\* is no token response, another issuer error
OtherFailure(p) ==
    /\ proc[p].http # {}
    /\ \/ Answer(p).outcome # "json"
       \/ /\ Has(Answer(p).body, "error")
          /\ Answer(p).body.error # "invalid_grant"
       \/ /\ ~Has(Answer(p).body, "error")
          /\ ~Has(Answer(p).body, "access_token")

\* the same predicates of the state after a step
DoneNext(p) == proc'[p].pc = "done"
AnswerNext(p) == TheItem(proc'[p].http)
IsJsonNext(p) == proc'[p].http # {} /\ AnswerNext(p).outcome = "json"
InvalidGrantNext(p) ==
    IsJsonNext(p) /\ Has(AnswerNext(p).body, "error")
                  /\ AnswerNext(p).body.error = "invalid_grant"
OtherFailureNext(p) ==
    /\ proc'[p].http # {}
    /\ \/ AnswerNext(p).outcome # "json"
       \/ /\ Has(AnswerNext(p).body, "error")
          /\ AnswerNext(p).body.error # "invalid_grant"
       \/ /\ ~Has(AnswerNext(p).body, "error")
          /\ ~Has(AnswerNext(p).body, "access_token")

----------------------------------------------------------------------------
(* C1: a call that read a record whose expires_at is strictly in the past, or
   that has no expires_at, has made exactly one request to the token endpoint
   when it finishes, whatever the answer was; no call makes more than one. *)
C1_ExactlyOneRefresh ==
    \A p \in Procs :
        /\ proc[p].posts <= 1
        /\ (Done(p) /\ proc[p].user_data # {}
              /\ (~HasExpiry(p) \/ ReadExpiry(p) < proc[p].read_at))
           => proc[p].posts = 1

\* a finished call that read a record expired strictly before the read
C1_Witness ==
    \E p \in Procs :
        /\ Done(p) /\ proc[p].user_data # {}
        /\ HasExpiry(p) /\ ReadExpiry(p) < proc[p].read_at
        /\ proc[p].posts = 1

(* C2: a call that read a record with now < expires_at returns the stored
   access token, has made no request to the token endpoint and no write, and
   the stored record is what it read; the tokens handed out from the stored
   record since its last write are all the same token. *)
C2_ValidTokenServed ==
    /\ \A p \in Procs :
        (Done(p) /\ proc[p].user_data # {} /\ HasExpiry(p)
            /\ proc[p].read_at < ReadExpiry(p))
        => /\ proc[p].result = Returned(ReadItem(p).ms_access_token)
           /\ proc[p].posts = 0
           /\ proc[p].muts = 0
           /\ StoredNow(p) = proc[p].user_data
    /\ \A u \in Users :
        \A i \in 1..Len(served[u]) : served[u][i] = served[u][1]

\* the second of two successive calls that found the token valid
C2_Witness ==
    \E p \in Procs :
        /\ Done(p) /\ proc[p].user_data # {} /\ HasExpiry(p)
        /\ proc[p].read_at < ReadExpiry(p)
        /\ Len(served[proc[p].user_id]) = 2

(* C3, as claimed: a call whose refresh the issuer rejects with invalid_grant
   ends with the user's record deleted and returns absent; and a record deleted
   by such a purge stays absent until an authorization callback stores one. *)
C3_PurgeOnInvalidGrant ==
    [][/\ \A p \in Procs :
            (~Done(p) /\ DoneNext(p) /\ InvalidGrantNext(p))
            => /\ table'[proc'[p].user_id] = {}
               /\ proc'[p].result = None
       /\ \A u \in Users :
            (lastOp[u].kind = "delete" /\ table[u] = {} /\ table'[u] # {})
            => lastOp'[u].kind = "put"]_vars

(* C4: the step at which a call ends on a refresh failure other than an invalid
   refresh token leaves the table as it was, and the call has written nothing. *)
C4_OtherFailureKeepsRecord ==
    [][\A p \in Procs :
            (~Done(p) /\ DoneNext(p) /\ OtherFailureNext(p))
            => /\ table' = table
               /\ proc'[p].muts = 0]_vars

\* a call ended by such a failure, the record it read still stored
C4_Witness ==
    \E p \in Procs :
        /\ Done(p) /\ OtherFailure(p)
        /\ Has(Answer(p), "body") /\ Has(Answer(p).body, "error")
        /\ StoredNow(p) = proc[p].user_data

(* C5: an expires_at held in the table is the expiry the issuer reported for the
   record's access token, less the safety margin. *)
C5_ExpiryLessMargin ==
    \A u \in Users :
        (table[u] # {} /\ Has(TheItem(table[u]), "ms_token_expires_at")
            /\ TheItem(table[u]).ms_access_token.exp # NoExp)
        => fromisoformat(TheItem(table[u]).ms_token_expires_at)
            = TheItem(table[u]).ms_access_token.exp - SafetyMargin

\* a stored record with an expires_at and a reported expiry
C5_Witness ==
    \E u \in Users :
        /\ table[u] # {} /\ Has(TheItem(table[u]), "ms_token_expires_at")
        /\ TheItem(table[u]).ms_access_token.exp # NoExp

(* C6: the write of a granted refresh stores the issued access token, the
   issuer's refresh token when the response has one and otherwise the refresh
   token the call had read, and the call returns the issued access token. *)
C6_SuccessfulRefresh ==
    [][\A p \in Procs :
            (proc[p].pc = "updating" /\ DoneNext(p))
            => LET body == Answer(p).body
                   item == TheItem(table'[proc[p].user_id])
               IN  /\ Granted(p)
                   /\ item.ms_access_token = body.access_token
                   /\ item.ms_refresh_token =
                        (IF Has(body, "refresh_token") THEN body.refresh_token
                         ELSE ReadItem(p).ms_refresh_token)
                   /\ proc'[p].result = Returned(body.access_token)]_vars

\* a finished refresh whose response had no refresh token
C6_Witness ==
    \E p \in Procs :
        /\ Done(p) /\ Granted(p) /\ proc[p].muts = 1
        /\ ~Has(Answer(p).body, "refresh_token")
        /\ StoredNow(p) # {}
        /\ TheItem(StoredNow(p)).ms_refresh_token = ReadItem(p).ms_refresh_token
        /\ proc[p].result = Returned(Answer(p).body.access_token)

(* C7: a call made when the user has no record returns absent, has made no
   request to the token endpoint and no write, and there is still no record. *)
C7_NotConnected ==
    \A p \in Procs :
        (Done(p) /\ ~proc[p].existed)
        => /\ proc[p].result = None
           /\ proc[p].posts = 0
           /\ proc[p].muts = 0
           /\ StoredNow(p) = {}

\* a finished call of a user without a record
C7_Witness ==
    \E p \in Procs : Done(p) /\ ~proc[p].existed /\ proc[p].result = None

(* C8, as claimed: a call at now >= expires_at refreshes and does not return the
   stored token; the stored token is returned only when now < expires_at. *)
C8_RefreshAtExpiry ==
    \A p \in Procs :
        (Done(p) /\ proc[p].user_data # {} /\ HasExpiry(p))
        => /\ proc[p].read_at >= ReadExpiry(p) => proc[p].posts = 1
           /\ proc[p].posts = 0 => proc[p].read_at < ReadExpiry(p)

(* C8, amended: the staleness test is expires_at < now.  A call at
   now <= expires_at returns the stored token without a request to the token
   endpoint; a call refreshes exactly when expires_at < now. *)
C8_RefreshAfterExpiry ==
    \A p \in Procs :
        (Done(p) /\ proc[p].user_data # {} /\ HasExpiry(p))
        => /\ proc[p].read_at <= ReadExpiry(p)
              => /\ proc[p].posts = 0
                 /\ proc[p].result = Returned(ReadItem(p).ms_access_token)
           /\ proc[p].read_at > ReadExpiry(p) => proc[p].posts = 1

\* a call made at the very instant expires_at
C8_Witness ==
    \E p \in Procs :
        /\ Done(p) /\ proc[p].user_data # {} /\ HasExpiry(p)
        /\ proc[p].read_at = ReadExpiry(p)
        /\ proc[p].result = Returned(ReadItem(p).ms_access_token)

(* C9, as claimed: a call returns absent only when the user had no record or
   the call itself purged it after the issuer rejected the refresh token. *)
C9_AbsentOnlyWhenDisconnected ==
    \A p \in Procs :
        (Done(p) /\ proc[p].result = None)
        => \/ ~proc[p].existed
           \/ InvalidGrant(p) /\ proc[p].muts = 1

(* C10: when a call's write overwrites the write of another call that had read
   the same record, both having made their own exchange, the record holds
   exactly the access token, refresh token and expires_at of this later write. *)
C10_LastWriterWins ==
    \A p \in Procs :
        (Done(p) /\ proc[p].muts = 1 /\ proc[p].result.kind = "token"
            /\ lastOp[proc[p].user_id].raced)
        => /\ proc[p].posts = 1
           /\ LET s == TheItem(proc[p].staged)
              IN  StoredNow(p) =
                    {[user_id |-> proc[p].user_id, ms_access_token |-> s.a,
                      ms_refresh_token |-> s.r, ms_token_expires_at |-> s.e]}

\* the later of two writes by calls that read the same stale record
C10_Witness ==
    \E p \in Procs :
        /\ Done(p) /\ proc[p].muts = 1 /\ proc[p].result.kind = "token"
        /\ lastOp[proc[p].user_id].raced
        /\ (~HasExpiry(p) \/ ReadExpiry(p) < proc[p].read_at)
        /\ proc[p].posts = 1
        /\ TheItem(StoredNow(p)).ms_access_token = TheItem(proc[p].staged).a

----------------------------------------------------------------------------
(* OAuthHandler.py: lambda_handler with the response it returns *)

EmptyDict == [k \in {} |-> k]

\* event.get('queryStringParameters', {}): the parameters an invocation can carry
QueryParams ==
    {EmptyDict, [code |-> "code"], [user_id |-> "U1"]}
    \cup {[state |-> u] : u \in Users}
    \cup {[code |-> "code", state |-> u] : u \in Users \cup {""}}

Paths == {"/connect_microsoft", "/oauth_microsoft_redirect", "/favicon.ico"}

\* the events of the API gateway: the callback with each set of parameters, the
\* other routes, and an event that lacks requestContext.domainName
Events ==
    {[domainName |-> TRUE, rawPath |-> "/oauth_microsoft_redirect",
      queryStringParameters |-> q] : q \in QueryParams}
    \cup {[domainName |-> TRUE, rawPath |-> "/connect_microsoft",
           queryStringParameters |-> q] : q \in {EmptyDict, [user_id |-> "U1"]}}
    \cup {[domainName |-> d, rawPath |-> path,
           queryStringParameters |-> [code |-> "code", state |-> "U1"]]
            : d \in BOOLEAN, path \in Paths}

\* a test that looks at the state only
MissingParams_stateOnly(auth_code, slack_user_id) == slack_user_id = ""

\* not auth_code or not slack_user_id (line 70); a missing parameter is None,
\* here the empty string, and an empty string counts as missing too
MissingParams(auth_code, slack_user_id) == auth_code = "" \/ slack_user_id = ""

\* the handler returned this status code
Status(code, event) == [kind |-> "response", statusCode |-> code, event |-> event]
\* the handler met the token endpoint's answer h and returned this status code
StatusAfter(code, event, h) ==
    [kind |-> "response", statusCode |-> code, event |-> event, answer |-> h]
\* the handler raised (requests.post or response.json() raised, or the answer
\* lacks access_token or refresh_token at lines 94-95): no response is built
RaisedAfter(event, h) == [kind |-> "raise", event |-> event, answer |-> h]

(* lambda_handler, lines 34-106, one whole invocation *)
OAuthHandler ==
    /\ response = {}
    /\ \E event \in Events :
        LET params == event.queryStringParameters
            auth_code == Get(params, "code", "")
            slack_user_id == Get(params, "state", "")
        IN  IF ~event.domainName
            THEN /\ response' = {Status(500, event)}
                 /\ UNCHANGED <<table, issued, lastOp, served>>
            ELSE IF event.rawPath = "/connect_microsoft"
            THEN /\ response' = {Status(IF Get(params, "user_id", "") = ""
                                        THEN 400 ELSE 302, event)}
                 /\ UNCHANGED <<table, issued, lastOp, served>>
            ELSE IF event.rawPath # "/oauth_microsoft_redirect"
            THEN /\ response' = {Status(404, event)}
                 /\ UNCHANGED <<table, issued, lastOp, served>>
            ELSE IF MissingParams(auth_code, slack_user_id)
            THEN /\ response' = {Status(400, event)}
                 /\ UNCHANGED <<table, issued, lastOp, served>>
            ELSE \E h \in HttpOutcomes(issued + 1, now) :
                IF h.outcome # "json"
                THEN /\ response' = {RaisedAfter(event, h)}
                     /\ UNCHANGED <<table, issued, lastOp, served>>
                ELSE IF Has(h.body, "error")
                THEN /\ response' = {StatusAfter(500, event, h)}
                     /\ UNCHANGED <<table, issued, lastOp, served>>
                ELSE IF ~Has(h.body, "access_token") \/ ~Has(h.body, "refresh_token")
                THEN /\ response' = {RaisedAfter(event, h)}
                     /\ UNCHANGED <<table, issued, lastOp, served>>
                ELSE /\ slack_user_id \in Users
                     /\ table' = PutItem(table, slack_user_id,
                            [user_id |-> slack_user_id,
                             ms_access_token |-> h.body.access_token,
                             ms_refresh_token |-> h.body.refresh_token])
                     /\ issued' = issued + 1
                     /\ lastOp' = [lastOp EXCEPT ![slack_user_id] =
                            [kind |-> "put", saw |-> {}, raced |-> FALSE, at |-> now]]
                     /\ served' = [served EXCEPT ![slack_user_id] = <<>>]
                     /\ response' = {StatusAfter(200, event, h)}
    /\ UNCHANGED <<now, proc, finder, bridge, worker>>

(* the response reaches the API gateway; the next invocation can start *)
OAuthRespond ==
    /\ response # {}
    /\ response' = {}
    /\ UNCHANGED <<now, table, proc, issued, lastOp, served, finder, bridge, worker>>

\* Between two invocations of the handler one worker uses the stored record.
NextOAuth ==
    \/ OAuthHandler
    \/ OAuthRespond
    \/ \E u \in Users : response = {} /\ Call("w1", u)
    \/ response = {} /\ Exchange("w1")
    \/ response = {} /\ Purge("w1")
    \/ response = {} /\ Save("w1")
    \/ response = {} /\ Return("w1")
    \/ response = {} /\ Tick

SpecOAuth == Init /\ [][NextOAuth]_vars

\* the invocation that is returning was an authorization callback
IsCallbackNext ==
    /\ response = {} /\ response' # {}
    /\ TheItem(response').event.domainName
    /\ TheItem(response').event.rawPath = "/oauth_microsoft_redirect"
\* ... without a code or without a state
ParamsMissingNext ==
    LET params == TheItem(response').event.queryStringParameters
    IN  Get(params, "code", "") = "" \/ Get(params, "state", "") = ""
\* ... that the token endpoint answered with an error
EndpointErrorNext ==
    /\ Has(TheItem(response'), "answer")
    /\ TheItem(response').answer.outcome = "json"
    /\ Has(TheItem(response').answer.body, "error")

(* C11: an authorization callback without a code or without a state returns
   400, one that the token endpoint answers with an error returns 500, and
   neither writes to the table: no record is created and a stored record stays
   as it was.  A callback that returns anything but 200, or raises, does not
   write either. *)
C11_FailedCallbackKeepsTable ==
    [][IsCallbackNext =>
        /\ ParamsMissingNext =>
            /\ TheItem(response').kind = "response"
            /\ TheItem(response').statusCode = 400
            /\ table' = table
        /\ (~ParamsMissingNext /\ EndpointErrorNext) =>
            /\ TheItem(response').kind = "response"
            /\ TheItem(response').statusCode = 500
            /\ table' = table
        /\ (TheItem(response').kind = "raise"
              \/ TheItem(response').statusCode # 200) => table' = table]_vars

\* a callback for a user with a stored, refreshed record was answered with an
\* error by the token endpoint
C11_Witness ==
    /\ response # {}
    /\ TheItem(response).event.rawPath = "/oauth_microsoft_redirect"
    /\ Has(TheItem(response), "answer")
    /\ TheItem(response).answer.outcome = "json"
    /\ Has(TheItem(response).answer.body, "error")
    /\ TheItem(response).kind = "response"
    /\ TheItem(response).statusCode = 500
    /\ LET u == TheItem(response).event.queryStringParameters.state
       IN  table[u] # {} /\ Has(TheItem(table[u]), "ms_token_expires_at")

----------------------------------------------------------------------------
(* ms_graph_client.find_free_time_slot *)

\* events of one calendar day the model hands to one run
MaxEvents == 2

\* f"{date}T08:00:00", f"{date}T18:00:00" and timedelta(minutes=15)
WindowStartHour == 8
WindowEndHour == 18
StepMinutes == 15

\* A datetime: wall is the wall-clock time in minutes after midnight of `date`,
\* tzinfo is empty (a naive datetime) or holds the UTC offset in minutes.
DateTime(wall, tzinfo) == [wall |-> wall, tzinfo |-> tzinfo]

\* A dateTime string: the wall-clock time and the zone suffix, "" when the
\* string has none
DateTimeString(wall, zone) == [t |-> wall, z |-> zone]

\* dateutil.parser.parse: no suffix gives a naive datetime, "Z" and "+01:00"
\* an aware one
parse(str) ==
    DateTime(str.t, IF str.z = "" THEN {}
                    ELSE IF str.z = "Z" THEN {0} ELSE {60})

\* if dt.tzinfo is None: dt = dt.replace(tzinfo=timezone.utc)
AssumeUtc(dt) == IF dt.tzinfo = {} THEN DateTime(dt.wall, {0}) ELSE dt

\* datetime.fromisoformat(f"{date}T{hh}:{mm}:00").replace(tzinfo=timezone.utc)
AtUtc(hh, mm) == DateTime(hh * 60 + mm, {0})

\* the instant of an aware datetime, in minutes after midnight UTC of `date`;
\* aware datetimes are compared by their instants
Instant(dt) == dt.wall - TheItem(dt.tzinfo)

\* dt + timedelta(minutes=m)
Plus(dt, m) == DateTime(dt.wall + m, dt.tzinfo)

\* the events get_calendar_events_for_day returns
Event(s, zs, e, ze) ==
    [start |-> [dateTime |-> DateTimeString(s, zs)],
     end |-> [dateTime |-> DateTimeString(e, ze)]]

\* 09:30-10:00, 10:00-10:30, 09:30-10:30 and 08:00-18:00, each instant with or
\* without the suffix Z, and 10:30-11:00 at +01:00, which is 09:30-10:00 UTC
CalendarEvents ==
    {Event(i[1], zs, i[2], ze) :
        i \in {<<570, 600>>, <<600, 630>>, <<570, 630>>, <<480, 1080>>},
        zs \in {"", "Z"}, ze \in {"", "Z"}}
    \cup {Event(630, "+01:00", 660, "+01:00")}

EventLists == UNION {[1..n -> CalendarEvents] : n \in 0..MaxEvents}

Durations == {30, 60}

\* preferred_start_time: None, "09:45" or "10:00"
PreferredStartTimes == {{}, {[hh |-> 9, mm |-> 45]}, {[hh |-> 10, mm |-> 0]}}

\* (start_dt, end_dt) of one event, lines 155-162
BusyTime(event) ==
    <<AssumeUtc(parse(event.start.dateTime)), AssumeUtc(parse(event.end.dateTime))>>

\* tuple comparison of two busy times
BusyLeq(a, b) ==
    \/ Instant(a[1]) < Instant(b[1])
    \/ Instant(a[1]) = Instant(b[1]) /\ Instant(a[2]) <= Instant(b[2])

RECURSIVE Insert(_, _)
Insert(x, sorted) ==
    IF sorted = <<>> THEN <<x>>
    ELSE IF BusyLeq(sorted[1], x) THEN <<sorted[1]>> \o Insert(x, Tail(sorted))
    ELSE <<x>> \o sorted

\* busy_times after the loop of lines 154-162 and busy_times.sort()
RECURSIVE SortedBusyTimes(_)
SortedBusyTimes(events) ==
    IF events = <<>> THEN <<>>
    ELSE Insert(BusyTime(events[Len(events)]),
                SortedBusyTimes(SubSeq(events, 1, Len(events) - 1)))

\* an overlap test that sees only busy times starting inside the candidate
Overlaps_startsInside(bs, be, slot_start, slot_end) ==
    Instant(bs) < Instant(slot_end) /\ Instant(bs) > Instant(slot_start)

\* an overlap test on closed intervals
Overlaps_closed(bs, be, slot_start, slot_end) ==
    Instant(bs) <= Instant(slot_end) /\ Instant(be) >= Instant(slot_start)

\* bs < slot_end and be > slot_start
Overlaps(bs, be, slot_start, slot_end) ==
    Instant(bs) < Instant(slot_end) /\ Instant(be) > Instant(slot_start)

\* a scan whose candidate does not move
NextCandidate_stays(slot_start) == slot_start

\* a scan on the half-hour grid
NextCandidate_halfHour(slot_start) == Plus(slot_start, 2 * StepMinutes)

\* slot_start += timedelta(minutes=15)
NextCandidate(slot_start) == Plus(slot_start, StepMinutes)

\* One run of find_free_time_slot: its arguments, the events of the day, its
\* locals, the candidates it has rejected, and its result (empty: None).
FinderCalled(events, duration_minutes, preferred_start_time) ==
    [pc |-> "called", events |-> events, duration_minutes |-> duration_minutes,
     preferred_start_time |-> preferred_start_time, busy_times |-> <<>>,
     day_start |-> {}, day_end |-> {}, slot_start |-> {}, rejected |-> {},
     result |-> {}]

\* the token lifecycle and the other components at rest
AtRest ==
    /\ now = 0
    /\ table = [u \in Users |-> {}]
    /\ proc = [p \in Procs |-> IdleProc]
    /\ issued = 0
    /\ lastOp = [u \in Users |-> NoOp]
    /\ served = [u \in Users |-> <<>>]
    /\ response = {}
    /\ worker = Off

InitSlot ==
    /\ AtRest
    /\ bridge = Off
    /\ finder \in {FinderCalled(ev, d, pst) :
            ev \in EventLists, d \in Durations, pst \in PreferredStartTimes}

(* lines 150-173: the busy times, the window and the first candidate *)
Prepare ==
    /\ finder.pc = "called"
    /\ LET day_start ==
            IF finder.preferred_start_time # {}
            THEN AtUtc(TheItem(finder.preferred_start_time).hh,
                       TheItem(finder.preferred_start_time).mm)
            ELSE AtUtc(WindowStartHour, 0)
       IN  finder' = [finder EXCEPT !.pc = "scanning",
                        !.busy_times = SortedBusyTimes(finder.events),
                        !.day_start = {day_start},
                        !.day_end = {AtUtc(WindowEndHour, 0)},
                        !.slot_start = {day_start}]
    /\ UNCHANGED <<now, table, proc, issued, lastOp, served, response, bridge, worker>>

(* lines 174-186: one iteration of the while loop *)
Probe ==
    /\ finder.pc = "scanning"
    /\ LET slot_start == TheItem(finder.slot_start)
           slot_end == Plus(slot_start, finder.duration_minutes)
           overlap == \E i \in 1..Len(finder.busy_times) :
                        Overlaps(finder.busy_times[i][1], finder.busy_times[i][2],
                                 slot_start, slot_end)
       IN  /\ Instant(slot_end) <= Instant(TheItem(finder.day_end))
           /\ finder' =
                IF ~overlap
                THEN [finder EXCEPT !.pc = "returned",
                        !.result = {[start |-> isoformat(slot_start),
                                     end |-> isoformat(slot_end)]}]
                ELSE [finder EXCEPT !.slot_start = {NextCandidate(slot_start)},
                        !.rejected = @ \cup {slot_start}]
    /\ UNCHANGED <<now, table, proc, issued, lastOp, served, response, bridge, worker>>

(* line 174 false, line 188: return None *)
Exhausted ==
    /\ finder.pc = "scanning"
    /\ Instant(Plus(TheItem(finder.slot_start), finder.duration_minutes))
            > Instant(TheItem(finder.day_end))
    /\ finder' = [finder EXCEPT !.pc = "returned", !.result = {}]
    /\ UNCHANGED <<now, table, proc, issued, lastOp, served, response, bridge, worker>>

NextSlot == Prepare \/ Probe \/ Exhausted

SpecSlot == InitSlot /\ [][NextSlot]_vars

----------------------------------------------------------------------------
(* What a finished run of find_free_time_slot shows *)

SlotReturned == finder.pc = "returned" /\ finder.result # {}
NoneReturned == finder.pc = "returned" /\ finder.result = {}
\* start and end of the returned slot, read back from the strings
SlotStart == fromisoformat(TheItem(finder.result).start)
SlotEnd == fromisoformat(TheItem(finder.result).end)
\* the window of the run
WindowStart == TheItem(finder.day_start)
WindowEnd == TheItem(finder.day_end)
\* the instants, in minutes, of the busy times of the run
BusyInstants ==
    {<<Instant(finder.busy_times[i][1]), Instant(finder.busy_times[i][2])>> :
        i \in 1..Len(finder.busy_times)}
\* the candidate of duration finder.duration_minutes that starts at instant c
\* shares time with some busy interval
Blocked(c) ==
    \E b \in BusyInstants : b[1] < c + finder.duration_minutes /\ b[2] > c
\* the instants of the grid candidates that fit into the window
GridCandidates ==
    {c \in {Instant(WindowStart) + k * StepMinutes :
                k \in 0..(((WindowEndHour - WindowStartHour) * 60) \div StepMinutes)} :
        c + finder.duration_minutes <= Instant(WindowEnd)}
\* the slot of the run's duration that starts at hh:mm UTC
SlotAt(hh, mm) ==
    {[start |-> isoformat(AtUtc(hh, mm)),
      end |-> isoformat(Plus(AtUtc(hh, mm), finder.duration_minutes))]}
\* some instant of an event of the day carries no zone
NaiveEvent ==
    \E i \in 1..Len(finder.events) :
        \/ parse(finder.events[i].start.dateTime).tzinfo = {}
        \/ parse(finder.events[i].end.dateTime).tzinfo = {}

(* C12: a returned slot overlaps no busy interval of the day, starts at or
   after the window start (08:00 UTC, or the preferred start time), ends at or
   before 18:00 UTC, and ends duration_minutes after its start. *)
C12_SlotFreeAndInWindow ==
    SlotReturned =>
        /\ \A b \in BusyInstants :
                ~(b[1] < Instant(SlotEnd) /\ b[2] > Instant(SlotStart))
        /\ SlotStart.tzinfo = {0} /\ SlotEnd.tzinfo = {0}
        /\ Instant(SlotStart) >=
                (IF finder.preferred_start_time = {}
                 THEN WindowStartHour * 60
                 ELSE TheItem(finder.preferred_start_time).hh * 60
                        + TheItem(finder.preferred_start_time).mm)
        /\ Instant(SlotEnd) <= WindowEndHour * 60
        /\ Instant(SlotEnd) = Instant(SlotStart) + finder.duration_minutes

\* a slot was returned on a day with two busy times, after the scan had to pass
\* a busy candidate
C12_Witness ==
    /\ SlotReturned
    /\ Len(finder.busy_times) = 2
    /\ finder.rejected # {}
    /\ finder.preferred_start_time # {}

(* C13: the returned slot is the earliest candidate of the 15-minute grid from
   the window start that fits into the window and overlaps no busy interval;
   None is returned exactly when no such candidate exists.  With the single
   busy time 10:00-10:30, the window 08:00-18:00 and 30 minutes the slot is
   08:00-08:30. *)
C13_EarliestFreeCandidate ==
    finder.pc = "returned" =>
        /\ (finder.result = {}) = (\A c \in GridCandidates : Blocked(c))
        /\ SlotReturned =>
            /\ Instant(SlotStart) \in GridCandidates
            /\ ~Blocked(Instant(SlotStart))
            /\ \A c \in GridCandidates : c < Instant(SlotStart) => Blocked(c)
        /\ (/\ BusyInstants = {<<600, 630>>}
            /\ finder.preferred_start_time = {}
            /\ finder.duration_minutes = 30) => finder.result = SlotAt(8, 0)

\* on a day whose only busy time is 09:30-10:00 a scan from 09:45 returned the
\* second candidate of its grid
C13_Witness ==
    /\ SlotReturned
    /\ BusyInstants = {<<570, 600>>}
    /\ Instant(WindowStart) = 585
    /\ Instant(SlotStart) = 600
    /\ finder.rejected = {WindowStart}

(* C14: a candidate is rejected exactly when some busy interval starts before
   the candidate's end and ends after the candidate's start; a busy interval
   that ends when the candidate starts, or starts when it ends, does not block
   it.  Against the busy time 09:30-10:00 the candidate 10:00-10:30 is accepted
   and the candidate 09:45-10:15 is rejected. *)
C14_HalfOpenOverlap ==
    /\ \A c \in finder.rejected : Blocked(Instant(c))
    /\ SlotReturned => ~Blocked(Instant(SlotStart))
    /\ (/\ finder.pc = "returned"
        /\ BusyInstants = {<<570, 600>>}
        /\ finder.duration_minutes = 30
        /\ Instant(WindowStart) = 600) =>
            finder.result = SlotAt(10, 0) /\ finder.rejected = {}
    /\ (/\ finder.pc = "returned"
        /\ BusyInstants = {<<570, 600>>}
        /\ finder.duration_minutes = 30
        /\ Instant(WindowStart) = 585) =>
            finder.result = SlotAt(10, 0) /\ finder.rejected = {AtUtc(9, 45)}

\* the candidate 10:00-10:30 was accepted as the first candidate of a scan on a
\* day whose only busy time is 09:30-10:00
C14_Witness ==
    /\ SlotReturned
    /\ BusyInstants = {<<570, 600>>}
    /\ finder.duration_minutes = 30
    /\ Instant(WindowStart) = 600
    /\ finder.result = SlotAt(10, 0)

(* C15: find_free_time_slot returns neither a slot nor None, but fails, when
   an instant of a busy interval carries no timezone information. *)
C15_NaiveInstantFails ==
    finder.pc = "returned" => ~NaiveEvent

----------------------------------------------------------------------------
(* SlackClaudiaWorkerFunctionMCP.py: MCPClient *)

\* the largest MCP_MAX_RETRIES the model configures
MaxRetries == 2

\* self.available_tools, lines 26-52
available_tools ==
    {"list-calendar-events", "get-calendar-event", "create-calendar-event",
     "update-calendar-event", "delete-calendar-event", "get-calendar-view",
     "list-calendars",
     "list-mail-messages", "send-mail", "get-mail-message", "delete-mail-message",
     "list-mail-folders", "list-mail-folder-messages",
     "list-todo-tasks", "create-todo-task", "update-todo-task", "delete-todo-task",
     "get-todo-task", "list-todo-task-lists",
     "list-outlook-contacts", "get-outlook-contact", "create-outlook-contact",
     "update-outlook-contact", "delete-outlook-contact",
     "get-current-user",
     "list-drives", "get-drive-root-item", "list-folder-files",
     "list-chats", "get-chat", "list-chat-messages", "send-chat-message"}

\* the tool names a caller passes: two of the list, and two that are not on it
ToolNames == {"get-current-user", "create-calendar-event", "delete-user", ""}

\* the parameters a caller passes: None (the empty set), {} or a dict
Parameters == {{}, {EmptyDict}, {[subject |-> "standup"]}}

\* an allow-list that lets every name pass
IsAvailable_any(tool_name) == TRUE

\* tool_name in self.available_tools
IsAvailable(tool_name) == tool_name \in available_tools

\* _create_mcp_request, lines 60-70; `parameters or {}`
create_mcp_request(tool_name, parameters) ==
    [jsonrpc |-> "2.0", id |-> 1, method |-> "tools/call",
     params |-> [name |-> tool_name,
                 arguments |-> IF parameters = {} THEN EmptyDict
                               ELSE TheItem(parameters)]]

\* The error member of a provider response: a string, or an object with a code
\* and a message.  A text is a sequence of words.
ErrorString(text) == [type |-> "str", text |-> text]
ErrorObject(code, message) == [type |-> "dict", code |-> code, message |-> message]

ErrorInfos ==
    {ErrorString(<<"Authentication", "failed">>),
     ErrorString(<<"please", "login", "first">>),
     ErrorString(<<"event", "not", "found">>),
     ErrorObject("-32001", <<"AUTHENTICATION", "required">>),
     ErrorObject("-32602", <<"invalid", "params">>)}

\* str(error_info): the string itself, or the repr of the dict with its keys
str(error_info) ==
    IF error_info.type = "str" THEN error_info.text
    ELSE <<"code", error_info.code, "message">> \o error_info.message

\* str.lower(), word by word
LowerWord(w) ==
    IF w \in {"Authentication", "AUTHENTICATION"} THEN "authentication"
    ELSE IF w \in {"Login", "LOGIN"} THEN "login"
    ELSE w
lower(text) == [i \in 1..Len(text) |-> LowerWord(text[i])]

\* JSON objects the provider can print: with a result (null, the empty set, or
\* a payload), with an error, with both, with neither; and the JSON value []
Responses ==
    {[jsonrpc |-> "2.0", id |-> 1, result |-> r] : r \in {{}, {[value |-> "ok"]}}}
    \cup {[jsonrpc |-> "2.0", id |-> 1, error |-> ei] : ei \in ErrorInfos}
    \cup {[jsonrpc |-> "2.0", id |-> 1, result |-> {[value |-> "ok"]},
           error |-> ErrorString(<<"Authentication", "failed">>)]}
    \cup {[jsonrpc |-> "2.0", id |-> 1], <<>>}

\* what the subprocess wrote to stdout: nothing, white space, text that is not
\* JSON, or a JSON value
Stdouts ==
    {[raw |-> "empty"], [raw |-> "blank"], [raw |-> "garbage"]}
    \cup {[raw |-> "json", value |-> v] : v \in Responses}

\* One run of the provider subprocess: Popen raised, communicate() timed out,
\* or the process exited.  A process that exits with a failure code wrote
\* nothing, a result or an authentication error.
SubprocessOutcomes ==
    {[kind |-> "popen_raises"], [kind |-> "timeout"]}
    \cup {[kind |-> "exit", returncode |-> 0, stdout |-> out] : out \in Stdouts}
    \cup {[kind |-> "exit", returncode |-> 1, stdout |-> out] :
            out \in {[raw |-> "empty"],
                     [raw |-> "json", value |->
                        [jsonrpc |-> "2.0", id |-> 1, result |-> {[value |-> "ok"]}]],
                     [raw |-> "json", value |->
                        [jsonrpc |-> "2.0", id |-> 1,
                         error |-> ErrorString(<<"Authentication", "failed">>)]]}}

\* The results of call_mcp_tool.  None members are empty sets.
Success(data) == [success |-> TRUE, data |-> data, error |-> {}]
Failure(error, error_message) ==
    [success |-> FALSE, data |-> {}, error |-> {error},
     error_message |-> error_message]

\* a classification that knows no authentication errors
IsAuthenticationError_never(error_info) == FALSE

\* a classification that takes every error for an authentication error
IsAuthenticationError_always(error_info) == TRUE

\* 'authentication' in str(error_info).lower() or 'login' in str(error_info).lower()
IsAuthenticationError(error_info) ==
    \/ Contains(lower(str(error_info)), "authentication")
    \/ Contains(lower(str(error_info)), "login")

\* a classification that takes a response without result and error for a success
process_mcp_response_lenient(mcp_response) ==
    IF Has(mcp_response, "error")
    THEN {Failure("tool_error", str(mcp_response.error))}
    ELSE {Success({[value |-> "ok"]})}

\* _process_mcp_response, lines 139-169: the result, or None (the empty set)
process_mcp_response(mcp_response) ==
    IF Has(mcp_response, "result")
    THEN {Success(mcp_response.result)}
    ELSE IF Has(mcp_response, "error")
    THEN IF IsAuthenticationError(mcp_response.error)
         THEN {Failure("authentication_required",
                       <<"Please", "authenticate", "with", "Microsoft", "365", "first">>)}
         ELSE {Failure("tool_error", str(mcp_response.error))}
    ELSE {}

\* stdout.strip() is not empty
HasOutput(stdout) == stdout.raw \notin {"empty", "blank"}

\* a bridge that reads the output of a failed process too
Classifiable_anyExit(outcome) == HasOutput(outcome.stdout)

\* process.returncode == 0 and stdout.strip(), line 113
Classifiable(outcome) == outcome.returncode = 0 /\ HasOutput(outcome.stdout)

\* _execute_mcp_subprocess, lines 83-137, for one run of the subprocess
execute_mcp_subprocess(outcome) ==
    IF outcome.kind # "exit" THEN {}
    ELSE IF Classifiable(outcome)
    THEN IF outcome.stdout.raw = "json"
         THEN process_mcp_response(outcome.stdout.value)
         ELSE {}
    ELSE {}

\* a loop that makes one more attempt
Attempts_oneMore(max_retries) == max_retries + 2

\* range(self.max_retries + 1)
Attempts(max_retries) == max_retries + 1

\* a loop that goes on after a tool error
Final_successOrAuth(result) ==
    result # {} /\ TheItem(result).error # {"tool_error"}

\* if result is not None: return result
Final(result) == result # {}

\* json.dumps(mcp_request) + '\n': the line written to the provider's stdin
json_dumps(value) == [line |-> value]

\* a bridge that numbers its requests by attempt
StdinFor_renumbered(mcp_request, retry_count) ==
    json_dumps([mcp_request EXCEPT !.id = @ + retry_count])

\* input=json.dumps(mcp_request) + '\n', line 105; retry_count is not used
StdinFor(mcp_request, retry_count) == json_dumps(mcp_request)

\* a bridge that leaves a timed-out subprocess alone
Reaps_never(outcome) == FALSE

\* except subprocess.TimeoutExpired, line 126
Reaps(outcome) == outcome.kind = "timeout"

\* process.wait(timeout=5) after process.kill(): the process has exited, or the
\* grace timeout expired first (the exception is swallowed at lines 131-132)
WaitOutcomes == {"exited", "expired"}

\* One call of call_mcp_tool from the worker: its arguments, the client's
\* max_retries, the request it built, the loop variable, the subprocesses
\* launched so far, what each of them did, the lines written to their stdin,
\* how the wait for each timed-out subprocess ended, the subprocesses still
\* running, the result (empty until the call returns) and the message the
\* worker posted for it (empty until posted).
BridgeCalled(tool_name, parameters, max_retries) ==
    [pc |-> "called", tool_name |-> tool_name, parameters |-> parameters,
     max_retries |-> max_retries, mcp_request |-> {}, attempt |-> 0,
     launches |-> 0, outcomes |-> <<>>, sent |-> <<>>, reaped |-> <<>>,
     running |-> 0, result |-> {}, posted |-> {}]

InitMcp ==
    /\ AtRest
    /\ finder = Off
    /\ bridge \in {BridgeCalled(t, ps, m) :
            t \in ToolNames, ps \in Parameters, m \in 0..MaxRetries}

(* call_mcp_tool, lines 183-192: the allow-list and the request *)
Validate ==
    /\ bridge.pc = "called"
    /\ bridge' =
        IF ~IsAvailable(bridge.tool_name)
        THEN [bridge EXCEPT !.pc = "returned",
                !.result = {Failure("invalid_tool",
                    <<"Tool", bridge.tool_name, "is", "not", "available">>)}]
        ELSE [bridge EXCEPT !.pc = "looping",
                !.mcp_request =
                    {create_mcp_request(bridge.tool_name, bridge.parameters)}]
    /\ UNCHANGED <<now, table, proc, issued, lastOp, served, response, finder, worker>>

(* call_mcp_tool, lines 195-206: one iteration of the retry loop, with the
   run of _execute_mcp_subprocess it makes, up to the return of communicate().
   A subprocess that was started got the request on its stdin; one that timed
   out is still running. *)
Attempt ==
    /\ bridge.pc = "looping"
    /\ bridge.attempt < Attempts(bridge.max_retries)
    /\ \E outcome \in SubprocessOutcomes :
        LET result == execute_mcp_subprocess(outcome)
            ran == [bridge EXCEPT
                        !.launches = @ + 1,
                        !.outcomes = Append(@, outcome),
                        !.sent = IF outcome.kind = "popen_raises" THEN @
                                 ELSE Append(@, StdinFor(TheItem(bridge.mcp_request),
                                                         bridge.attempt)),
                        !.running = IF outcome.kind = "timeout" THEN @ + 1 ELSE @]
        IN  bridge' =
                IF Reaps(outcome)
                THEN [ran EXCEPT !.pc = "timed_out"]
                ELSE IF Final(result)
                THEN [ran EXCEPT !.pc = "returned", !.result = result]
                ELSE [ran EXCEPT !.attempt = @ + 1]
    /\ UNCHANGED <<now, table, proc, issued, lastOp, served, response, finder, worker>>

(* _execute_mcp_subprocess, lines 126-133: process.kill(), process.wait(timeout=5)
   and return None; the loop goes on *)
Reap ==
    /\ bridge.pc = "timed_out"
    /\ \E waited \in WaitOutcomes :
        bridge' = [bridge EXCEPT !.pc = "looping", !.attempt = @ + 1,
                        !.reaped = Append(@, waited),
                        !.running = IF waited = "exited" THEN @ - 1 ELSE @]
    /\ UNCHANGED <<now, table, proc, issued, lastOp, served, response, finder, worker>>

(* call_mcp_tool, lines 208-215: the loop is over *)
GiveUp ==
    /\ bridge.pc = "looping"
    /\ bridge.attempt >= Attempts(bridge.max_retries)
    /\ bridge' = [bridge EXCEPT !.pc = "returned",
            !.result = {Failure("max_retries_exceeded",
                <<"Tool", bridge.tool_name, "failed", "after", "multiple",
                  "attempts">>)}]
    /\ UNCHANGED <<now, table, proc, issued, lastOp, served, response, finder, worker>>

\* the texts the worker posts, as sequences of words
AuthenticatePrompt == <<"Please", "authenticate", "with", "Microsoft", "365", "first">>
IssuePrefix == <<"Sorry", "I", "encountered", "an", "issue">>
ErrorPrefix == <<"Sorry", "I", "encountered", "an", "error">>
\* str(e) of the AttributeError that data.get raises when data is None
NoneTypeError == <<"NoneType", "object", "has", "no", "attribute", "get">>

\* lambda_handler, lines 315-351 and 396-401: response_text for the result of
\* the tool call
ResponseText(tool_name, result) ==
    IF result.success
    THEN IF result.data # {} /\ Has(TheItem(result.data), "value")
         THEN <<"Operation", "completed", "successfully">>
         ELSE IF tool_name = "create-calendar-event"
         THEN <<"Event", "created", "successfully">>
         ELSE IF tool_name = "get-current-user"
         THEN IF result.data = {} THEN ErrorPrefix \o NoneTypeError
              ELSE <<"Connected", "as", Get(TheItem(result.data), "displayName", "User")>>
         ELSE <<tool_name, "completed", "successfully">>
    ELSE IF result.error = {"authentication_required"}
    THEN AuthenticatePrompt
    ELSE IssuePrefix \o Get(result, "error_message", <<"Unknown", "error">>)

(* lambda_handler, lines 315-351 and 394-401: the worker posts its message for
   the result of the tool call *)
Report ==
    /\ bridge.pc = "returned"
    /\ bridge' = [bridge EXCEPT !.pc = "reported",
            !.posted = {ResponseText(bridge.tool_name, TheItem(bridge.result))}]
    /\ UNCHANGED <<now, table, proc, issued, lastOp, served, response, finder, worker>>

NextMcp == Validate \/ Attempt \/ Reap \/ GiveUp \/ Report

SpecMcp == InitMcp /\ [][NextMcp]_vars

----------------------------------------------------------------------------
(* What a call of call_mcp_tool shows *)

McpReturned == bridge.pc \in {"returned", "reported"}
\* the classification of the returned result: its error member, or "success"
McpError ==
    IF TheItem(bridge.result).success THEN "success"
    ELSE TheItem(TheItem(bridge.result).error)
\* the subprocess exited with code 0 and printed a JSON object
Answered(outcome) ==
    /\ outcome.kind = "exit" /\ outcome.returncode = 0
    /\ outcome.stdout.raw = "json"
    /\ outcome.stdout.value # <<>>
\* ... that carries a result
ResultResponse(outcome) ==
    Answered(outcome) /\ Has(outcome.stdout.value, "result")
\* ... that carries an error and no result
ErrorResponse(outcome) ==
    /\ Answered(outcome)
    /\ Has(outcome.stdout.value, "error")
    /\ ~Has(outcome.stdout.value, "result")
\* the words of the error member, whatever their case
ErrorWords(outcome) ==
    LET error_info == outcome.stdout.value.error
        words == IF error_info.type = "str" THEN error_info.text
                 ELSE error_info.message
    IN  {words[i] : i \in 1..Len(words)}
\* the error names an authentication or login problem
AuthWords ==
    {"authentication", "Authentication", "AUTHENTICATION", "login", "Login", "LOGIN"}
AuthErrorResponse(outcome) ==
    ErrorResponse(outcome) /\ ErrorWords(outcome) \cap AuthWords # {}
OtherErrorResponse(outcome) ==
    ErrorResponse(outcome) /\ ErrorWords(outcome) \cap AuthWords = {}
\* a transport-level failure: no process, a timeout, a failure exit code, no
\* output, output that is not JSON, JSON without result and error
TransportFailure(outcome) ==
    ~ResultResponse(outcome) /\ ~ErrorResponse(outcome)
\* the text carries the words, in their order and next to each other
Carries(text, words) ==
    \E k \in 0..(Len(text) - Len(words)) :
        \A j \in 1..Len(words) : text[k + j] = words[j]
\* the message of the error member
ProviderMessage(outcome) ==
    LET error_info == outcome.stdout.value.error
    IN  IF error_info.type = "str" THEN error_info.text ELSE error_info.message

(* C16: a call with a tool name that is not on the allow-list never reaches
   the retry loop and launches no subprocess; it returns invalid_tool, whatever
   the parameters and max_retries are.  No other call returns invalid_tool. *)
C16_InvalidToolNoLaunch ==
    /\ bridge.tool_name \notin available_tools =>
        /\ bridge.pc \in {"called", "returned", "reported"}
        /\ bridge.launches = 0 /\ bridge.outcomes = <<>> /\ bridge.mcp_request = {}
        /\ McpReturned =>
            /\ McpError = "invalid_tool"
            /\ ~TheItem(bridge.result).success
    /\ (McpReturned /\ bridge.tool_name \in available_tools) =>
            McpError # "invalid_tool"

\* a call for a tool that is not listed returned, with parameters and with
\* retries configured
C16_Witness ==
    /\ McpReturned
    /\ bridge.tool_name = "delete-user"
    /\ bridge.parameters = {[subject |-> "standup"]}
    /\ bridge.max_retries = MaxRetries
    /\ McpError = "invalid_tool"
    /\ bridge.launches = 0

(* C17: when a subprocess exits with code 0 and prints a JSON error response
   whose error names an authentication or login problem, the call returns
   authentication_required and that launch is its last: no launch follows
   it, so a call whose first launch is answered so has launched exactly once,
   for every max_retries. *)
C17_AuthErrorNoRetry ==
    \A i \in 1..Len(bridge.outcomes) :
        AuthErrorResponse(bridge.outcomes[i]) =>
            /\ McpReturned
            /\ McpError = "authentication_required"
            /\ i = Len(bridge.outcomes)
            /\ bridge.launches = i

\* the first launch of a call with two retries left was answered with an
\* authentication error
C17_Witness ==
    /\ McpReturned
    /\ bridge.max_retries = 2
    /\ Len(bridge.outcomes) = 1
    /\ AuthErrorResponse(bridge.outcomes[1])
    /\ bridge.launches = 1
    /\ McpError = "authentication_required"

(* C18: a call launches at most max_retries + 1 subprocesses; every launch but
   the last ended in a transport-level failure, and a launch that produced a
   result or an error response is the last one and ends the call.  With
   max_retries = 2, two timeouts and then a result response return success
   after exactly 3 launches. *)
C18_BoundedRetries ==
    /\ bridge.launches = Len(bridge.outcomes)
    /\ bridge.launches <= bridge.max_retries + 1
    /\ \A i \in 1..Len(bridge.outcomes) :
        /\ i < Len(bridge.outcomes) => TransportFailure(bridge.outcomes[i])
        /\ ~TransportFailure(bridge.outcomes[i]) =>
                McpReturned /\ i = Len(bridge.outcomes)
    /\ (/\ bridge.max_retries = 2
        /\ Len(bridge.outcomes) = 3
        /\ bridge.outcomes[1].kind = "timeout"
        /\ bridge.outcomes[2].kind = "timeout"
        /\ ResultResponse(bridge.outcomes[3])) =>
            McpReturned /\ McpError = "success" /\ bridge.launches = 3

\* two timeouts, then a result
C18_Witness ==
    /\ McpReturned
    /\ bridge.max_retries = 2
    /\ Len(bridge.outcomes) = 3
    /\ bridge.outcomes[1].kind = "timeout"
    /\ bridge.outcomes[2].kind = "timeout"
    /\ ResultResponse(bridge.outcomes[3])
    /\ McpError = "success"
    /\ bridge.launches = 3

(* C19: a call for a listed tool returns max_retries_exceeded exactly when it
   has made max_retries + 1 launches and every one of them ended in a
   transport-level failure. *)
C19_MaxRetriesExceeded ==
    (McpReturned /\ bridge.tool_name \in available_tools) =>
        ((McpError = "max_retries_exceeded")
            = (/\ Len(bridge.outcomes) = bridge.max_retries + 1
               /\ \A i \in 1..Len(bridge.outcomes) :
                    TransportFailure(bridge.outcomes[i])))

\* three launches failed in three ways and the call gave up
C19_Witness ==
    /\ McpReturned
    /\ McpError = "max_retries_exceeded"
    /\ bridge.max_retries = 2
    /\ bridge.launches = 3
    /\ bridge.outcomes[1].kind = "timeout"
    /\ bridge.outcomes[2].kind = "exit" /\ bridge.outcomes[2].returncode = 1
    /\ bridge.outcomes[3].kind = "exit" /\ bridge.outcomes[3].returncode = 0
    /\ bridge.outcomes[3].stdout.raw = "garbage"

(* C20: when a subprocess exits with code 0 and prints a JSON error response
   whose error names no authentication or login problem, the call returns
   tool_error with the provider's message in error_message, and that launch is
   its last. *)
C20_ToolErrorNoRetry ==
    \A i \in 1..Len(bridge.outcomes) :
        OtherErrorResponse(bridge.outcomes[i]) =>
            /\ McpReturned
            /\ McpError = "tool_error"
            /\ Carries(TheItem(bridge.result).error_message,
                       ProviderMessage(bridge.outcomes[i]))
            /\ i = Len(bridge.outcomes)
            /\ bridge.launches = i

\* the first launch of a call with retries left was answered with an error
\* object that names no authentication problem
C20_Witness ==
    /\ McpReturned
    /\ bridge.max_retries = 2
    /\ Len(bridge.outcomes) = 1
    /\ OtherErrorResponse(bridge.outcomes[1])
    /\ bridge.outcomes[1].stdout.value.error.type = "dict"
    /\ McpError = "tool_error"

\* the error classes of a failed call
ErrorClasses ==
    {"invalid_tool", "authentication_required", "tool_error", "max_retries_exceeded"}

(* C21: a returned result with success = true has a data payload that is not
   None and no error; one with success = false has no data, an error of the
   four classes and an error_message that is not empty. *)
C21_FullyPopulated ==
    McpReturned =>
        LET result == TheItem(bridge.result)
        IN  IF result.success
            THEN /\ result.data # {}
                 /\ result.error = {}
                 /\ Get(result, "error_message", <<>>) = <<>>
            ELSE /\ result.data = {}
                 /\ result.error # {}
                 /\ TheItem(result.error) \in ErrorClasses
                 /\ Get(result, "error_message", <<>>) # <<>>

\* the launches of the call that timed out
TimedOut == {i \in 1..Len(bridge.outcomes) : bridge.outcomes[i].kind = "timeout"}
\* the waits of the call that ended with the grace timeout
Expired == {j \in 1..Len(bridge.reaped) : bridge.reaped[j] = "expired"}

(* C22, as stated: whenever the retry loop is between two attempts or the call
   has returned, no timed-out subprocess is still running. *)
C22_NoProcessLeft ==
    bridge.pc \in {"looping", "returned", "reported"} => bridge.running = 0

(* C22, amended: every timed-out subprocess is killed and waited for before its
   attempt returns, so between two attempts and after the call there is one
   finished wait per timeout; a timed-out subprocess is still running then
   only if the 5-second wait for it expired. *)
C22_KilledAndAwaited ==
    /\ bridge.pc \in {"looping", "returned", "reported"} =>
        /\ Len(bridge.reaped) = Cardinality(TimedOut)
        /\ bridge.running = Cardinality(Expired)
    /\ bridge.pc = "timed_out" =>
        /\ Len(bridge.outcomes) \in TimedOut
        /\ Len(bridge.reaped) = Cardinality(TimedOut) - 1
        /\ bridge.running = Cardinality(Expired) + 1

\* a call returned after two timeouts; the first subprocess exited within the
\* grace timeout, the second did not
C22_Witness ==
    /\ McpReturned
    /\ Cardinality(TimedOut) = 2
    /\ bridge.reaped = <<"exited", "expired">>
    /\ bridge.running = 1

(* C23: the message posted for a failed tool call carries neither the message
   of a provider error response nor the text of an exception. *)
C23_NoRawTextPosted ==
    bridge.pc = "reported" =>
        /\ \A i \in 1..Len(bridge.outcomes) :
                ErrorResponse(bridge.outcomes[i]) =>
                    ~Carries(TheItem(bridge.posted), ProviderMessage(bridge.outcomes[i]))
        /\ ~Carries(TheItem(bridge.posted), NoneTypeError)

(* C27: the request is built once, from the tool name and the parameters of
   the call, with id 1; every subprocess that was started, on the first try
   and on every retry, got exactly this request on its stdin. *)
C27_SameEnvelope ==
    /\ bridge.pc \notin {"called"} /\ bridge.tool_name \in available_tools =>
        bridge.mcp_request =
            {[jsonrpc |-> "2.0", id |-> 1, method |-> "tools/call",
              params |-> [name |-> bridge.tool_name,
                          arguments |-> IF bridge.parameters = {} THEN EmptyDict
                                        ELSE TheItem(bridge.parameters)]]}
    /\ \A i \in 1..Len(bridge.sent) :
        bridge.sent[i] = [line |-> TheItem(bridge.mcp_request)]
    /\ Len(bridge.sent) =
        Cardinality({i \in 1..Len(bridge.outcomes) :
                        bridge.outcomes[i].kind # "popen_raises"})

\* three subprocesses got the request of a call with parameters
C27_Witness ==
    /\ McpReturned
    /\ bridge.parameters = {[subject |-> "standup"]}
    /\ Len(bridge.sent) = 3
    /\ bridge.sent[1] = bridge.sent[3]
    /\ bridge.sent[3].line.params.arguments = [subject |-> "standup"]

\* the subprocess exited with code 0 and printed a JSON object without result
\* and without error
NeitherResponse(outcome) ==
    /\ outcome.kind = "exit" /\ outcome.returncode = 0
    /\ outcome.stdout.raw = "json"
    /\ ~Has(outcome.stdout.value, "result")
    /\ ~Has(outcome.stdout.value, "error")

(* C28: a launch answered with a JSON object that has neither result nor
   error gives no result: the call does not return on it while attempts
   remain, and a call whose launches were all answered so returns
   max_retries_exceeded after max_retries + 1 launches. *)
C28_NeitherShapeRetried ==
    \A i \in 1..Len(bridge.outcomes) :
        NeitherResponse(bridge.outcomes[i]) =>
            /\ (McpReturned /\ i = Len(bridge.outcomes)) =>
                /\ i = bridge.max_retries + 1
                /\ McpError = "max_retries_exceeded"
            /\ (bridge.pc = "looping" /\ i = Len(bridge.outcomes)) =>
                bridge.attempt = i

\* all three launches were answered with a JSON object of neither shape
C28_Witness ==
    /\ McpReturned
    /\ bridge.max_retries = 2
    /\ Len(bridge.outcomes) = 3
    /\ \A i \in 1..3 : NeitherResponse(bridge.outcomes[i])
                        /\ bridge.outcomes[i].stdout.value # <<>>
    /\ McpError = "max_retries_exceeded"

\* the subprocess exited with a failure code, or wrote nothing but white space
FailedExit(outcome) ==
    /\ outcome.kind = "exit"
    /\ \/ outcome.returncode # 0
       \/ outcome.stdout.raw \in {"empty", "blank"}

(* C29: a call returns success, authentication_required or tool_error only on
   a launch that exited with code 0 and wrote something; a launch that exited
   with another code or wrote nothing is never the one the call returns on
   unless the attempts are used up, whatever it wrote. *)
C29_ClassifiesCleanExitOnly ==
    /\ (McpReturned /\ McpError \in {"success", "authentication_required", "tool_error"}) =>
        LET last == bridge.outcomes[Len(bridge.outcomes)]
        IN  /\ last.kind = "exit" /\ last.returncode = 0
            /\ last.stdout.raw \notin {"empty", "blank"}
    /\ \A i \in 1..Len(bridge.outcomes) :
        FailedExit(bridge.outcomes[i]) =>
            /\ (McpReturned /\ i = Len(bridge.outcomes)) =>
                /\ i = bridge.max_retries + 1
                /\ McpError = "max_retries_exceeded"
            /\ (bridge.pc = "looping" /\ i = Len(bridge.outcomes)) =>
                bridge.attempt = i

\* three launches printed an authentication error and exited with code 1; the
\* call ended as max_retries_exceeded
C29_Witness ==
    /\ McpReturned
    /\ McpError = "max_retries_exceeded"
    /\ Len(bridge.outcomes) = 3
    /\ \A i \in 1..3 :
        /\ bridge.outcomes[i].kind = "exit"
        /\ bridge.outcomes[i].returncode = 1
        /\ bridge.outcomes[i].stdout.raw = "json"
        /\ Has(bridge.outcomes[i].stdout.value, "error")

----------------------------------------------------------------------------
(* Token lifecycle: concurrent refreshes, and the call after a write *)

\* the step at which call p reads the record of user u
ReadStep(p, u) ==
    /\ proc[p].pc = "idle" /\ proc'[p].pc # "idle"
    /\ proc'[p].user_id = u
    /\ table[u] # {}
    /\ proc'[p].user_data = table[u]
\* the lifetime the issuer reported for the stored access token, written at
\* lastOp[u].at; 3600 when it reported none
ReportedLifetime(u) ==
    LET token == TheItem(table[u]).ms_access_token
    IN  IF token.exp = NoExp THEN DefaultExpiresIn ELSE token.exp - lastOp[u].at

(* C24: the step that deletes a record deletes one that holds the refresh token
   the deleting call had read and presented to the issuer. *)
C24_DeletesRejectedTokenOnly ==
    [][\A p \in Procs :
            (proc[p].pc = "deleting" /\ DoneNext(p) /\ table[proc[p].user_id] # {})
            => TheItem(table[proc[p].user_id]).ms_refresh_token
                    = ReadItem(p).ms_refresh_token]_vars

(* C25: the step that writes the result of a refresh writes to a key that has a
   record; it never creates one. *)
C25_RefreshNeverCreates ==
    [][\A p \in Procs :
            (proc[p].pc = "updating" /\ DoneNext(p))
            => table[proc[p].user_id] # {}]_vars

(* C26, as stated: a call that reads a record at the instant a successful
   refresh wrote it, no other write in between, returns the stored access
   token at once, whatever lifetime the issuer reported. *)
C26_SameTokenAfterRefresh ==
    [][\A p \in Procs, u \in Users :
            (ReadStep(p, u) /\ lastOp[u].kind = "update" /\ lastOp[u].at = now)
            => /\ DoneNext(p)
               /\ proc'[p].result = Returned(TheItem(table[u]).ms_access_token)
               /\ proc'[p].posts = 0]_vars

(* C26, amended: such a call returns the stored access token at once, without
   a request to the issuer and without a write, when the lifetime the issuer
   reported is at least the safety margin of 300 seconds; when it is shorter,
   the call refreshes again. *)
C26_SameTokenIfLifetimeCoversMargin ==
    [][\A p \in Procs, u \in Users :
            (ReadStep(p, u) /\ lastOp[u].kind = "update" /\ lastOp[u].at = now)
            => IF ReportedLifetime(u) >= SafetyMargin
               THEN /\ DoneNext(p)
                    /\ proc'[p].result = Returned(TheItem(table[u]).ms_access_token)
                    /\ proc'[p].posts = 0
                    /\ table' = table
               ELSE proc'[p].pc = "refreshing"]_vars

\* a call returned the token of a refresh made at the same instant, for which
\* the issuer had reported a lifetime of exactly 300 seconds
C26_Witness ==
    \E p \in Procs :
        /\ Done(p) /\ proc[p].posts = 0 /\ proc[p].user_data # {}
        /\ LET u == proc[p].user_id
           IN  /\ lastOp[u].kind = "update" /\ lastOp[u].at = now
               /\ proc[p].read_at = now
               /\ table[u] = proc[p].user_data
               /\ ReportedLifetime(u) = SafetyMargin
               /\ proc[p].result = Returned(TheItem(table[u]).ms_access_token)

(* C30: a callback that returns 200 leaves for its user a record of exactly
   user_id, the issued access token and the issued refresh token, whatever was
   stored before; a call that reads a record last written by a callback goes
   on to the refresh exchange instead of returning the stored access token. *)
C30_FirstCallAfterCallbackRefreshes ==
    [][/\ (/\ response = {} /\ response' # {}
           /\ TheItem(response').kind = "response"
           /\ TheItem(response').statusCode = 200)
          => LET r == TheItem(response')
             IN  table'[r.event.queryStringParameters.state] =
                    {[user_id |-> r.event.queryStringParameters.state,
                      ms_access_token |-> r.answer.body.access_token,
                      ms_refresh_token |-> r.answer.body.refresh_token]}
       /\ \A p \in Procs, u \in Users :
            (ReadStep(p, u) /\ lastOp[u].kind = "put")
            => /\ proc'[p].pc = "refreshing"
               /\ proc'[p].result = Pending]_vars

\* a call is at its refresh exchange after a callback replaced a record that
\* an earlier refresh had written
C30_Witness ==
    \E p \in Procs :
        /\ proc[p].pc = "refreshing"
        /\ lastOp[proc[p].user_id].kind = "put"
        /\ proc[p].user_data = table[proc[p].user_id]
        /\ ~Has(ReadItem(p), "ms_token_expires_at")
        /\ issued >= 3

----------------------------------------------------------------------------
(* find_free_time_slot for every integer duration: the scan and its end *)

\* events: 07:00-19:00 and 09:30-10:30 UTC, and 08:00-18:00 without a zone;
\* duration_minutes: negative, zero, usual, the whole window, longer than it
InitScan ==
    LET ScanEvents == {Event(420, "Z", 1140, "Z"), Event(570, "Z", 630, "Z"),
                       Event(480, "", 1080, "")}
    IN  /\ AtRest
        /\ bridge = Off
        /\ finder \in {FinderCalled(ev, d, pst) :
                ev \in UNION {[1..n -> ScanEvents] : n \in 0..MaxEvents},
                d \in {0 - 30, 0, 30, 600, 630},
                pst \in PreferredStartTimes}

\* the interpreter runs the loop until the function returns
SpecScan == InitScan /\ [][NextSlot]_vars /\ WF_vars(NextSlot)

(* C33: every run of find_free_time_slot returns, whatever the busy times and
   the integer duration (negative, zero, longer than the window).  The first
   candidate is the window start, each iteration that does not return moves
   the candidate by exactly 15 minutes, an iteration runs only while
   candidate + duration <= window end, and None is returned at the first
   candidate with candidate + duration > window end. *)
C33_ScanTerminates ==
    /\ <>(finder.pc = "returned")
    /\ [][LET candidate == Instant(TheItem(finder.slot_start))
              past_end == candidate + finder.duration_minutes > Instant(WindowEnd)
          IN  /\ (finder.pc = "called" /\ finder'.pc # "called")
                    => /\ finder'.slot_start = finder'.day_start
                       /\ finder'.rejected = {}
              /\ (finder.pc = "scanning" /\ finder'.pc = "scanning")
                    => /\ ~past_end
                       /\ Instant(TheItem(finder'.slot_start)) = candidate + StepMinutes
                       /\ finder'.rejected = finder.rejected \cup finder.slot_start
                       /\ finder'.day_end = finder.day_end
                       /\ finder'.duration_minutes = finder.duration_minutes
              /\ (finder.pc = "scanning" /\ finder'.pc = "returned")
                    => /\ finder'.slot_start = finder.slot_start
                       /\ (finder'.result = {}) = past_end]_vars
    /\ [](finder.pc \in {"scanning", "returned"} =>
            /\ Instant(TheItem(finder.slot_start))
                    = Instant(WindowStart) + StepMinutes * Cardinality(finder.rejected)
            /\ \A c \in finder.rejected :
                    Instant(c) + finder.duration_minutes <= Instant(WindowEnd))

\* a scan with a negative duration returned None after it had rejected every
\* candidate from 08:00 to 18:30
C33_Witness ==
    /\ NoneReturned
    /\ finder.duration_minutes < 0
    /\ Cardinality(finder.rejected) = 43
    /\ Instant(TheItem(finder.slot_start)) = 1125

----------------------------------------------------------------------------
(* SlackClaudiaWorkerFunction.py: lambda_handler, one invocation per mention *)

\* parameters.get('duration_minutes', 30), and the 30 minutes of line 148
DefaultDurationMinutes == 30
DefaultEventMinutes == 30

\* The fixed texts handed to slack_client.chat_postMessage, and the fixed
\* parts of the others
Texts ==
    [connect |-> "Before I can help, please connect your Microsoft 365 account via my App Home tab.",
     checking |-> "Let me check your calendar...",
     nothing |-> "You have nothing on your calendar for that period.",
     upcoming |-> "Here are your upcoming events:",
     details |-> "I can do that! Please tell me the full event details in one message, including the name, date, and time.",
     created |-> ":white_check_mark: Done! I've created the event:",
     event |-> "Event:",
     no_match |-> "Sorry, I couldn't find a matching event.",
     scheduled |-> ":white_check_mark: Scheduled",
     no_slot |-> "Sorry, I couldn't find a free slot for that duration.",
     final_response |-> "final_response",
     error |-> "Sorry, an error occurred while I was thinking :thinking_face::"]

\* format_event_time: the instant of the string, rendered for Europe/London
\* (parser.parse reads either kind of string of the model)
format_event_time(iso_string) ==
    [london |-> Instant(AssumeUtc(IF Has(iso_string, "iso")
                                  THEN fromisoformat(iso_string)
                                  ELSE parse(iso_string)))]

\* The actions the agent's completion can carry: intent and parameters, with
\* "14:00" today without a zone as start_time, "09:45" as preferred_start_time
AgentActions ==
    {[intent |-> "get_calendar", parameters |-> EmptyDict],
     [intent |-> "create_event", parameters |-> [subject |-> "Project Sync"]],
     [intent |-> "create_event",
      parameters |-> [subject |-> "Project Sync",
                      start_time |-> DateTimeString(840, "")]],
     [intent |-> "get_event_details", parameters |-> [time |-> 570]],
     [intent |-> "general_conversation", parameters |-> [text |-> "hello"]],
     [intent |-> "find_and_create_event", parameters |-> [subject |-> "task X"]],
     [intent |-> "find_and_create_event",
      parameters |-> [subject |-> "task X", duration_minutes |-> 60]],
     [intent |-> "find_and_create_event",
      parameters |-> [subject |-> "task X", duration_minutes |-> 60,
                      preferred_start_time |-> [hh |-> 9, mm |-> 45]]]}

\* invoke_agent and the parse of its completion: the call raises, the
\* completion holds no JSON object, or it holds an action
AgentOutcomes ==
    {[kind |-> "raises", action |-> {}], [kind |-> "text", action |-> {}]}
    \cup {[kind |-> "text", action |-> {a}] : a \in AgentActions}

\* get_calendar_view: raise_for_status raises, or the events of the period:
\* none, 08:00-18:00, 09:30-10:30, or 08:00-09:00 and 09:30-10:30
CalendarOutcomes ==
    {[kind |-> "raises", events |-> <<>>]}
    \cup {[kind |-> "events", events |-> d] :
            d \in {<<>>, <<Event(480, "Z", 1080, "Z")>>, <<Event(570, "Z", 630, "Z")>>,
                   <<Event(480, "Z", 540, "Z"), Event(570, "", 630, "")>>}}

\* event_data of create_calendar_event with start and end exchanged
EventData_swapped(subject, start_time, end_time, content) ==
    [subject |-> subject,
     body |-> [contentType |-> "HTML", content |-> content],
     start |-> [dateTime |-> end_time, timeZone |-> "UTC"],
     end |-> [dateTime |-> start_time, timeZone |-> "UTC"]]

\* event_data of create_calendar_event; the request to /me/events creates the
\* event or raise_for_status raises
EventData(subject, start_time, end_time, content) ==
    [subject |-> subject,
     body |-> [contentType |-> "HTML", content |-> content],
     start |-> [dateTime |-> start_time, timeZone |-> "UTC"],
     end |-> [dateTime |-> end_time, timeZone |-> "UTC"]]

\* find_event(events, time=time): the first event that starts at that time
find_event(events, time) ==
    LET hits == {i \in 1..Len(events) : parse(events[i].start.dateTime).wall = time}
    IN  IF hits = {} THEN {}
        ELSE {events[CHOOSE i \in hits : \A j \in hits : i <= j]}

\* a test that takes every answer for a token
Falsy_never(access_token) == FALSE

\* `not access_token`
Falsy(access_token) == access_token.kind = "None"

\* One invocation: the event, the locals, and what the invocation did: the
\* calls of invoke_agent (llm), the reads of the calendar (reads), the events
\* the calendar accepted (created), the texts posted (posts), whether
\* find_free_time_slot returned (searched) and what (slot).
WorkerCalled(type, user_id) ==
    [pc |-> "authorizing", type |-> type, user_id |-> user_id,
     access_token |-> {}, intent |-> "", parameters |-> EmptyDict,
     llm |-> 0, reads |-> 0, created |-> <<>>, posts |-> <<>>,
     searched |-> FALSE, slot |-> {}, status |-> ""]

Posting(w, text) == [w EXCEPT !.posts = Append(@, text)]
Complete(w) == [w EXCEPT !.pc = "returned", !.status = "complete"]
\* lines 199-202: the except clause of the try block
Failing(w, e) == Complete(Posting(w, [text |-> Texts.error, e |-> e]))

(* lines 31-39: the event arrives *)
Mention ==
    /\ worker = Off
    /\ proc["w1"].pc = "idle"
    /\ \E type \in {"app_mention", "message"}, user_id \in Users :
        worker' =
            IF type # "app_mention"
            THEN [WorkerCalled(type, user_id) EXCEPT !.pc = "returned",
                        !.status = "Ignoring non-mention event"]
            ELSE WorkerCalled(type, user_id)
    /\ UNCHANGED <<now, table, proc, issued, lastOp, served, response, finder, bridge>>

(* lines 41-47: get_valid_access_token has returned or raised *)
Authorize ==
    /\ worker.pc = "authorizing"
    /\ proc["w1"].pc = "done"
    /\ LET access_token == proc["w1"].result
       IN  worker' =
            IF access_token.kind = "raise"
            THEN [worker EXCEPT !.pc = "raised"]
            ELSE IF Falsy(access_token)
            THEN Complete(Posting([worker EXCEPT !.access_token = {access_token}],
                                  [text |-> Texts.connect]))
            ELSE [worker EXCEPT !.pc = "asking", !.access_token = {access_token}]
    /\ proc' = [proc EXCEPT !["w1"] = IdleProc]
    /\ UNCHANGED <<now, table, issued, lastOp, served, response, finder, bridge>>

(* lines 48-109: the prompt, invoke_agent and json.loads of its completion *)
InvokeAgent ==
    /\ worker.pc = "asking"
    /\ \E o \in AgentOutcomes :
        LET asked == [worker EXCEPT !.llm = @ + 1]
        IN  worker' =
                IF o.kind = "raises" THEN Failing(asked, "invoke_agent")
                ELSE IF o.action = {} THEN Failing(asked, "JSONDecodeError")
                ELSE [asked EXCEPT !.pc = "acting",
                        !.intent = TheItem(o.action).intent,
                        !.parameters = TheItem(o.action).parameters]
    /\ UNCHANGED <<now, table, proc, issued, lastOp, served, response, finder, bridge>>

(* lines 111-134 *)
GetCalendar ==
    /\ worker.pc = "acting"
    /\ worker.intent = "get_calendar"
    /\ \E c \in CalendarOutcomes :
        LET read == [Posting(worker, [text |-> Texts.checking]) EXCEPT !.reads = @ + 1]
        IN  worker' =
                IF c.kind = "raises" THEN Failing(read, "HTTPError")
                ELSE IF c.events = <<>> THEN Complete(Posting(read, [text |-> Texts.nothing]))
                ELSE Complete(Posting(read,
                        [text |-> Texts.upcoming,
                         times |-> [i \in 1..Len(c.events) |->
                            format_event_time(c.events[i].start.dateTime)]]))
    /\ UNCHANGED <<now, table, proc, issued, lastOp, served, response, finder, bridge>>

(* lines 136-156 *)
CreateEvent ==
    /\ worker.pc = "acting"
    /\ worker.intent = "create_event"
    /\ LET parameters == worker.parameters
       IN  IF ~Has(parameters, "subject") \/ ~Has(parameters, "start_time")
           THEN worker' = Complete(Posting(worker, [text |-> Texts.details]))
           ELSE \E g \in {"created", "http_error"} :
                LET end_time ==
                        IF Has(parameters, "end_time") THEN parameters.end_time
                        ELSE isoformat(Plus(parse(parameters.start_time),
                                            DefaultEventMinutes))
                IN  worker' =
                        IF g = "http_error" THEN Failing(worker, "HTTPError")
                        ELSE Complete(Posting(
                                [worker EXCEPT !.created = Append(@,
                                    EventData(parameters.subject, parameters.start_time,
                                              end_time, ""))],
                                [text |-> Texts.created, subject |-> parameters.subject]))
    /\ UNCHANGED <<now, table, proc, issued, lastOp, served, response, finder, bridge>>

(* lines 157-167 *)
GetEventDetails ==
    /\ worker.pc = "acting"
    /\ worker.intent = "get_event_details"
    /\ \E c \in CalendarOutcomes :
        LET read == [worker EXCEPT !.reads = @ + 1]
            match == find_event(c.events, worker.parameters.time)
        IN  worker' =
                IF c.kind = "raises" THEN Failing(read, "HTTPError")
                ELSE IF match # {}
                THEN Complete(Posting(read,
                        [text |-> Texts.event,
                         time |-> format_event_time(TheItem(match).start.dateTime)]))
                ELSE Complete(Posting(read, [text |-> Texts.no_match]))
    /\ UNCHANGED <<now, table, proc, issued, lastOp, served, response, finder, bridge>>

(* lines 168-173 and ms_graph_client lines 149-151: the parameters, the call of
   find_free_time_slot and its read of the day's events *)
FindSlot ==
    /\ worker.pc = "acting"
    /\ worker.intent = "find_and_create_event"
    /\ \E c \in CalendarOutcomes :
        LET read == [worker EXCEPT !.reads = @ + 1]
            duration == Get(worker.parameters, "duration_minutes", DefaultDurationMinutes)
            preferred_start_time ==
                IF Has(worker.parameters, "preferred_start_time")
                THEN {worker.parameters.preferred_start_time} ELSE {}
        IN  IF c.kind = "raises"
            THEN /\ worker' = Failing(read, "HTTPError")
                 /\ UNCHANGED finder
            ELSE /\ worker' = [read EXCEPT !.pc = "finding"]
                 /\ finder' = FinderCalled(c.events, duration, preferred_start_time)
    /\ UNCHANGED <<now, table, proc, issued, lastOp, served, response, bridge>>

(* lines 173-185: find_free_time_slot has returned *)
Schedule ==
    /\ worker.pc = "finding"
    /\ finder.pc = "returned"
    /\ LET slot == finder.result
           found == [worker EXCEPT !.searched = TRUE, !.slot = slot]
           subject == Get(worker.parameters, "subject", "")
       IN  IF slot = {}
           THEN worker' = Complete(Posting(found, [text |-> Texts.no_slot]))
           ELSE \E g \in {"created", "http_error"} :
                worker' =
                    IF g = "http_error" THEN Failing(found, "HTTPError")
                    ELSE Complete(Posting(
                            [found EXCEPT !.created = Append(@,
                                EventData(subject, TheItem(slot).start, TheItem(slot).end,
                                          "Auto-scheduled by Claudia"))],
                            [text |-> Texts.scheduled, subject |-> subject,
                             from |-> format_event_time(TheItem(slot).start),
                             to |-> format_event_time(TheItem(slot).end)]))
    /\ finder' = Off
    /\ UNCHANGED <<now, table, proc, issued, lastOp, served, response, bridge>>

(* lines 186-198: any other intent *)
GeneralConversation ==
    /\ worker.pc = "acting"
    /\ worker.intent \notin {"get_calendar", "create_event", "get_event_details",
                             "find_and_create_event"}
    /\ \E raises \in BOOLEAN :
        LET asked == [worker EXCEPT !.llm = @ + 1]
        IN  worker' = IF raises THEN Failing(asked, "invoke_agent")
                      ELSE Complete(Posting(asked, [text |-> Texts.final_response]))
    /\ UNCHANGED <<now, table, proc, issued, lastOp, served, response, finder, bridge>>

(* the invocation is over; the next mention can arrive *)
WorkerEnd ==
    /\ worker.pc \in {"returned", "raised"}
    /\ worker' = Off
    /\ UNCHANGED <<now, table, proc, issued, lastOp, served, response, finder, bridge>>

\* Between two mentions the user may authorize and time may pass; one
\* invocation runs get_valid_access_token and find_free_time_slot as its callees.
NextWorker ==
    \/ Mention
    \/ \E u \in Users : worker.pc = "authorizing" /\ u = worker.user_id /\ Call("w1", u)
    \/ worker.pc = "authorizing" /\ Exchange("w1")
    \/ worker.pc = "authorizing" /\ Purge("w1")
    \/ worker.pc = "authorizing" /\ Save("w1")
    \/ Authorize
    \/ InvokeAgent
    \/ GetCalendar
    \/ CreateEvent
    \/ GetEventDetails
    \/ FindSlot
    \/ worker.pc = "finding" /\ Prepare
    \/ worker.pc = "finding" /\ Probe
    \/ worker.pc = "finding" /\ Exhausted
    \/ Schedule
    \/ GeneralConversation
    \/ WorkerEnd
    \/ worker = Off /\ OAuthRedirect
    \/ worker = Off /\ Tick

SpecWorker == Init /\ [][NextWorker]_vars

----------------------------------------------------------------------------
(* What an invocation of the worker shows *)

(* C31: an invocation to which get_valid_access_token returned absent has
   posted the connect-your-account prompt and nothing else, has returned with
   status complete, and has made no call of the language model, no read of the
   calendar and no event; find_free_time_slot was not started. *)
C31_AbsentPromptsOnce ==
    (worker.pc # "off" /\ worker.access_token = {None}) =>
        /\ worker.pc = "returned"
        /\ worker.status = "complete"
        /\ worker.posts = <<[text |-> Texts.connect]>>
        /\ worker.llm = 0
        /\ worker.reads = 0
        /\ worker.created = <<>>
        /\ finder = Off

\* the invocation was told absent because its own refresh was rejected and
\* the record purged
C31_Witness ==
    /\ worker.pc # "off" /\ worker.access_token = {None}
    /\ worker.pc = "returned"
    /\ worker.posts = <<[text |-> Texts.connect]>>
    /\ table[worker.user_id] = {}
    /\ lastOp[worker.user_id].kind = "delete"

(* C32: on the find_and_create_event path an invocation creates at most one
   event, and only one whose start and end are the start and end of the slot
   find_free_time_slot returned to it; when find_free_time_slot returned None
   the invocation creates no event and posts only the no-free-slot text.  The
   slot the invocation uses is the result of the run of find_free_time_slot. *)
C32_OneEventForFoundSlot ==
    /\ []((/\ worker.pc \in {"acting", "finding", "returned"}
            /\ worker.intent = "find_and_create_event") =>
            /\ Len(worker.created) <= 1
            /\ worker.created # <<>> =>
                /\ worker.searched
                /\ worker.slot # {}
                /\ worker.created[1].start.dateTime = TheItem(worker.slot).start
                /\ worker.created[1].end.dateTime = TheItem(worker.slot).end
            /\ (worker.searched /\ worker.slot = {}) =>
                /\ worker.pc = "returned"
                /\ worker.created = <<>>
                /\ worker.posts = <<[text |-> Texts.no_slot]>>)
    /\ [][(worker.pc = "finding" /\ worker'.pc # "finding") =>
            /\ finder.pc = "returned"
            /\ worker'.searched
            /\ worker'.slot = finder.result
            /\ finder.result = {} => worker'.created = <<>>
            /\ Len(worker'.created) <= 1]_vars

\* a 60-minute event was created at 10:30-11:30 after the scan from 09:45 had
\* passed the candidates blocked by 09:30-10:30
C32_Witness ==
    /\ worker.pc = "returned"
    /\ worker.intent = "find_and_create_event"
    /\ Len(worker.created) = 1
    /\ worker.slot = {[start |-> isoformat(AtUtc(10, 30)), end |-> isoformat(AtUtc(11, 30))]}
    /\ worker.created[1].start.dateTime = isoformat(AtUtc(10, 30))
    /\ worker.created[1].end.dateTime = isoformat(AtUtc(11, 30))

====
